---- MODULE Spec2Model ----
(***************************************************************************)
(* A model of the demonstration classes and scripts of the notebooks       *)
(* "Chapter 1 - The Python Data Model" (FrenchDeck, spades_high, Vector)   *)
(* and                                                                     *)
(* "Chapter 3 - Dictionaries and Sets" (index.py in its three variants,    *)
(* StrKeyDict).                                                            *)
(*                                                                         *)
(* Python values are represented as follows.                               *)
(*   str        a sequence of one-character strings, <<"1","0">> for '10'  *)
(*   key        a record [t, s, n]: t = "str" with the characters in s,    *)
(*              or t = "int" with the number in n                          *)
(*   list       a sequence; a list OBJECT is a reference into a heap       *)
(*   Vector     a record [x, y]; a Vector OBJECT is a reference into a heap*)
(*   exception  a result record whose kind names the exception             *)
(***************************************************************************)
EXTENDS Integers, Sequences, FiniteSets, TLC

VARIABLES
    \* ---- StrKeyDict (Example 3-6) ----
    data,      \* self.data of the StrKeyDict: a function from keys to values
    stack,     \* the frames of the lookup in progress, innermost last
    calls,     \* every call made by the current (or last) operation, in order
    op,        \* the current (or last) operation on the mapping and its arguments
    res,       \* what the last operation returned or raised
    data0,     \* self.data when the current (or last) operation began
    \* ---- index.py (Examples 3-2, 3-4, 3-5) ----
    text,      \* the content of the file named by sys.argv[1]
    index,     \* index of each script: its dict, with the list objects it refers to
    done,      \* the number of matches each script has processed
    printed,   \* whether each script has run its printing loop
    out,       \* the lines each script has printed
    \* ---- FrenchDeck ----
    cards,     \* deck._cards
    dop,       \* the current (or last) operation on the deck and its argument
    dres,      \* what the last operation on the deck returned or raised
    it,        \* the iteration over the deck in progress
    \* ---- Vector ----
    vheap,     \* the Vector objects: v1, v2 and the result of the last operation
    vop,       \* the last operation on vectors: its operands and what it returned
    vheap0     \* the Vector objects when the last operation began

dictVars == <<data, stack, calls, op, res, data0>>
indexVars == <<text, index, done, printed, out>>

deckVars == <<cards, dop, dres, it>>
vectorVars == <<vheap, vop, vheap0>>

vars == <<dictVars, indexVars, deckVars, vectorVars>>

----------------------------------------------------------------------------
(* Strings *)

Digits == <<"0", "1", "2", "3", "4", "5", "6", "7", "8", "9">>

RECURSIVE NatToStr(_)
NatToStr(n) ==
    IF n < 10 THEN <<Digits[n + 1]>>
    ELSE NatToStr(n \div 10) \o <<Digits[(n % 10) + 1]>>

\* str(n) for an int n
IntToStr(n) == IF n < 0 THEN <<"-">> \o NatToStr(-n) ELSE NatToStr(n)

StrKey(s) == [t |-> "str", s |-> s, n |-> 0]
IntKey(n) == [t |-> "int", s |-> <<>>, n |-> n]

\* isinstance(key, str)
IsStr(key) == key.t = "str"

\* str(key): a str is returned as it is, an int is written in decimal
Str(key) == IF IsStr(key) THEN key ELSE StrKey(IntToStr(key.n))

----------------------------------------------------------------------------
(* Bounds of the StrKeyDict model *)

NumValues == 2

Values == 1..NumValues
Default == 0                       \* the default handed to get(), not a stored value
IntKeyValues == {-1, 7, 12}
IntKeys == {IntKey(n) : n \in IntKeyValues}
StrKeys == {Str(k) : k \in IntKeys} \cup {StrKey(<<"0", "7">>), StrKey(<<"a">>)}
Keys == IntKeys \cup StrKeys
NoKey == [t |-> "none", s |-> <<>>, n |-> 0]

----------------------------------------------------------------------------
(* StrKeyDict *)

Frame(fn, key) == [fn |-> fn, key |-> key]
Result(kind, val, key) == [kind |-> kind, val |-> val, key |-> key]
NoResult == Result("none", 0, NoKey)
Operation(name, key, arg) == [name |-> name, key |-> key, arg |-> arg]

\* d with item stored under key k (dict.__setitem__ of the underlying dict)
Store(d, k, v) == [x \in DOMAIN d \cup {k} |-> IF x = k THEN v ELSE d[x]]

\* UserDict's own __setitem__, self.data[key] = item: the override left out
SetItemDataRaw(d, key, item) == Store(d, key, item)

\* StrKeyDict.__setitem__: self.data[str(key)] = item
SetItemData(d, key, item) == Store(d, Str(key), item)

\* UserDict.__init__(dict): self.data = {}, then update() assigns every item
\* through __setitem__
RECURSIVE Construct(_)
Construct(items) ==
    IF items = <<>> THEN <<>>
    ELSE SetItemData(Construct(SubSeq(items, 1, Len(items) - 1)),
                     items[Len(items)][1], items[Len(items)][2])

InitItems ==
    { <<>>,
      << <<IntKey(7), 1>> >>,
      << <<IntKey(7), 1>>, <<StrKey(<<"7">>), 2>> >>,
      << <<StrKey(<<"a">>), 1>>, <<IntKey(12), 2>> >> }

Idle == stack = <<>>

\* d[key] = item
SetItem(key, item) ==
    /\ Idle
    /\ data' = SetItemData(data, key, item)
    /\ op' = Operation("__setitem__", key, item)
    /\ res' = Result("None", 0, NoKey)
    /\ calls' = <<Frame("__setitem__", key)>>
    /\ data0' = data
    /\ UNCHANGED stack
    /\ UNCHANGED <<indexVars, deckVars, vectorVars>>

\* d[key]: the interpreter calls d.__getitem__(key)
CallGetItem(key) ==
    /\ Idle
    /\ stack' = <<Frame("__getitem__", key)>>
    /\ calls' = <<Frame("__getitem__", key)>>
    /\ op' = Operation("__getitem__", key, 0)
    /\ res' = NoResult
    /\ data0' = data
    /\ UNCHANGED data
    /\ UNCHANGED <<indexVars, deckVars, vectorVars>>

\* d.get(key, default): Mapping.get is  try: return self[key]
\*                                      except KeyError: return default
CallGet(key, default) ==
    /\ Idle
    /\ stack' = <<Frame("get", key), Frame("__getitem__", key)>>
    /\ calls' = <<Frame("get", key), Frame("__getitem__", key)>>
    /\ op' = Operation("get", key, default)
    /\ res' = NoResult
    /\ data0' = data
    /\ UNCHANGED data
    /\ UNCHANGED <<indexVars, deckVars, vectorVars>>

Top == stack[Len(stack)]

\* a value returned by the innermost frame: every frame below returns what
\* its callee returned (return self[...]), so the operation returns it
Return(v) ==
    /\ res' = Result("value", v, NoKey)
    /\ stack' = <<>>
    /\ UNCHANGED <<data, calls, op, data0>>
    /\ UNCHANGED <<indexVars, deckVars, vectorVars>>

\* KeyError(key) raised by the innermost frame: it propagates to the
\* except clause of get, when get is the operation, and to the caller otherwise
Raise(key) ==
    /\ res' = IF stack[1].fn = "get"
              THEN Result("value", op.arg, NoKey)
              ELSE Result("KeyError", 0, key)
    /\ stack' = <<>>
    /\ UNCHANGED <<data, calls, op, data0>>
    /\ UNCHANGED <<indexVars, deckVars, vectorVars>>

Call(fn, key) ==
    /\ stack' = Append(stack, Frame(fn, key))
    /\ calls' = Append(calls, Frame(fn, key))
    /\ UNCHANGED <<data, op, res, data0>>
    /\ UNCHANGED <<indexVars, deckVars, vectorVars>>

\* hasattr(self.__class__, "__missing__")
HasMissing == TRUE

\* UserDict.__getitem__
GetItemStep ==
    /\ ~Idle
    /\ Top.fn = "__getitem__"
    /\ IF Top.key \in DOMAIN data
       THEN Return(data[Top.key])
       ELSE IF HasMissing THEN Call("__missing__", Top.key)
            ELSE Raise(Top.key)

\* __missing__ without the conversion: every missing key is a KeyError
MissingStepNoConvert ==
    /\ ~Idle
    /\ Top.fn = "__missing__"
    /\ Raise(Top.key)

\* __missing__ without the isinstance test: str keys are looked up again too
MissingStepNoStrTest ==
    /\ ~Idle
    /\ Top.fn = "__missing__"
    /\ Call("__getitem__", Str(Top.key))

\* StrKeyDict.__missing__
MissingStep ==
    /\ ~Idle
    /\ Top.fn = "__missing__"
    /\ IF IsStr(Top.key)
       THEN Raise(Top.key)
       ELSE Call("__getitem__", Str(Top.key))

\* StrKeyDict.__contains__: str(key) in self.data
ContainsData(d, key) == Str(key) \in DOMAIN d

\* key in d
Contains(key) ==
    /\ Idle
    /\ res' = Result("bool", IF ContainsData(data, key) THEN 1 ELSE 0, NoKey)
    /\ op' = Operation("__contains__", key, 0)
    /\ calls' = <<Frame("__contains__", key)>>
    /\ data0' = data
    /\ UNCHANGED <<data, stack>>
    /\ UNCHANGED <<indexVars, deckVars, vectorVars>>

DictInit ==
    /\ data \in {Construct(items) : items \in InitItems}
    /\ stack = <<>>
    /\ calls = <<>>
    /\ op = Operation("__init__", NoKey, 0)
    /\ res = NoResult
    /\ data0 = <<>>

DictNext ==
    \/ \E key \in Keys, item \in Values : SetItem(key, item)
    \/ \E key \in Keys : CallGetItem(key)
    \/ \E key \in Keys : CallGet(key, Default)
    \/ \E key \in Keys : Contains(key)
    \/ GetItemStep
    \/ MissingStep

----------------------------------------------------------------------------
(* Claims about StrKeyDict *)

\* C1: a finished lookup d[k] whose str(k) is a stored key returned exactly
\* the value stored under str(k), for non-string k and for string k alike.
C1_LookupNormalizesKey ==
    (Idle /\ op.name = "__getitem__" /\ Str(op.key) \in DOMAIN data)
        => res = Result("value", data[Str(op.key)], NoKey)

\* d[12] has just returned the value stored under '12'
C1_Witness ==
    /\ Idle
    /\ op = Operation("__getitem__", IntKey(12), 0)
    /\ StrKey(<<"1", "2">>) \in DOMAIN data
    /\ res.kind = "value"
    /\ Len(calls) = 3

\* C2: every key of self.data is a str, after construction and after every
\* assignment; d[k] = v writes the one entry str(k) and leaves the others alone.
C2_AllKeysAreStr ==
    /\ \A k \in DOMAIN data : IsStr(k)
    /\ op.name = "__setitem__" =>
          /\ DOMAIN data = DOMAIN data0 \cup {Str(op.key)}
          /\ data[Str(op.key)] = op.arg
          /\ \A x \in DOMAIN data0 \ {Str(op.key)} : data[x] = data0[x]

\* d[7] = v has just overwritten the entry stored under '7'
C2_Witness ==
    /\ op.name = "__setitem__"
    /\ op.key = IntKey(7)
    /\ StrKey(<<"7">>) \in DOMAIN data0
    /\ data0[StrKey(<<"7">>)] # op.arg
    /\ data[StrKey(<<"7">>)] = op.arg
    /\ DOMAIN data = DOMAIN data0

\* the calls a lookup of a key whose str form is not stored makes
MissingKeyCalls(key) ==
    IF IsStr(key)
    THEN <<Frame("__getitem__", key), Frame("__missing__", key)>>
    ELSE <<Frame("__getitem__", key), Frame("__missing__", key),
           Frame("__getitem__", Str(key)), Frame("__missing__", Str(key))>>

IsPrefix(s, t) == Len(s) <= Len(t) /\ s = SubSeq(t, 1, Len(s))

\* C3: a lookup d[k] with str(k) not stored makes the calls __getitem__(k),
\* __missing__(k) and, for a non-string k only, __getitem__(str(k)),
\* __missing__(str(k)), never more; it ends in KeyError and leaves self.data
\* as it was.
C3_MissingKeyRaises ==
    (op.name = "__getitem__" /\ Str(op.key) \notin DOMAIN data0) =>
        /\ data = data0
        /\ IsPrefix(calls, MissingKeyCalls(op.key))
        /\ Idle => /\ res.kind = "KeyError"
                   /\ calls = MissingKeyCalls(op.key)

\* d[-1] has just raised KeyError after its one retry with '-1'
C3_Witness ==
    /\ Idle
    /\ op = Operation("__getitem__", IntKey(-1), 0)
    /\ StrKey(<<"-", "1">>) \notin DOMAIN data
    /\ data # <<>>
    /\ res.kind = "KeyError"
    /\ Len(calls) = 4

\* C4: d.get(k, default) and k in d give what they would give if __missing__
\* were not defined: get returns the value stored under k itself, or else the
\* default; `in` tests str(k) against the stored keys.
C4_GetAndInIgnoreMissing ==
    /\ (Idle /\ op.name = "get") =>
          res = Result("value",
                       IF op.key \in DOMAIN data THEN data[op.key] ELSE op.arg,
                       NoKey)
    /\ op.name = "__contains__" =>
          res = Result("bool", IF Str(op.key) \in DOMAIN data THEN 1 ELSE 0, NoKey)

----------------------------------------------------------------------------
(* index.py: the input file and its matches *)

MaxTextLen == 4

Alphabet == {"a", "A", " ", "\n"}
Texts == UNION {[1..n -> Alphabet] : n \in 0..MaxTextLen}

\* the characters \w matches, among those of the alphabet
IsWordChar(c) == c \in {"a", "A"}

\* enumerate(fp, 1): the lines of the file, each with the "\n" that ends it
RECURSIVE Lines(_)
Lines(t) ==
    IF t = <<>> THEN <<>>
    ELSE LET nl == {i \in 1..Len(t) : t[i] = "\n"}
             end == IF nl = {} THEN Len(t)
                    ELSE CHOOSE i \in nl : \A j \in nl : i <= j
         IN  <<SubSeq(t, 1, end)>> \o Lines(SubSeq(t, end + 1, Len(t)))

\* the end of the run of word characters that starts at position i of line
RECURSIVE WordEnd(_, _)
WordEnd(line, i) ==
    IF i < Len(line) /\ IsWordChar(line[i + 1]) THEN WordEnd(line, i + 1) ELSE i

Location(line_no, column_no) == <<line_no, column_no>>
Match(word, location) == [word |-> word, location |-> location]

\* WORD_RE.finditer(line), from position i on: for each match its
\* word = match.group() and location = (line_no, match.start() + 1)
RECURSIVE FindIter(_, _, _)
FindIter(line, line_no, i) ==
    IF i > Len(line) THEN <<>>
    ELSE IF IsWordChar(line[i])
         THEN LET e == WordEnd(line, i)
              IN  <<Match(SubSeq(line, i, e), Location(line_no, i))>>
                  \o FindIter(line, line_no, e + 1)
         ELSE FindIter(line, line_no, i + 1)

RECURSIVE LineMatches(_, _)
LineMatches(lines, line_no) ==
    IF line_no > Len(lines) THEN <<>>
    ELSE FindIter(lines[line_no], line_no, 1) \o LineMatches(lines, line_no + 1)

\* the (word, location) pairs in the order the two nested loops produce them
Matches(t) == LineMatches(Lines(t), 1)

----------------------------------------------------------------------------
(* index.py: dicts of list objects *)

\* A mapping with the list objects it refers to: keys in insertion order,
\* ref[word] the list object stored under word, heap[r] the items of list
\* object r; Len(heap) list objects have been created so far.
EmptyIndex == [keys |-> <<>>, ref |-> <<>>, heap |-> <<>>]

Present(st, word) == word \in DOMAIN st.ref

\* [] or list(): a new, empty list object
NewList(st) ==
    [st |-> [st EXCEPT !.heap = Append(@, <<>>)], ret |-> Len(st.heap) + 1]

\* index.get(word, default)
DictGet(st, word, default) == IF Present(st, word) THEN st.ref[word] ELSE default

\* index[word] = r
DictSetItem(st, word, r) ==
    [st EXCEPT !.keys = IF Present(st, word) THEN @ ELSE Append(@, word),
               !.ref = Store(@, word, r)]

\* index.setdefault(word, r)
DictSetDefault(st, word, r) ==
    IF Present(st, word) THEN [st |-> st, ret |-> st.ref[word]]
    ELSE [st |-> DictSetItem(st, word, r), ret |-> r]

\* a defaultdict lookup that hands the new list back without storing it
DefaultDictGetItemNoInsert(st, word) ==
    IF Present(st, word) THEN [st |-> st, ret |-> st.ref[word]]
    ELSE NewList(st)

\* index[word] on defaultdict(list): a missing word gets default_factory()
\* stored under it, and that list is returned
DefaultDictGetItem(st, word) ==
    IF Present(st, word) THEN [st |-> st, ret |-> st.ref[word]]
    ELSE LET new == NewList(st)
         IN  [st |-> DictSetItem(new.st, word, new.ret), ret |-> new.ret]

\* r.append(x)
ListAppend(st, r, x) == [st EXCEPT !.heap[r] = Append(@, x)]

\* the three lines without the last: the list is never put into the index
GetAppendNoStore(st, word, location) ==
    LET new == NewList(st)
        occurrences == DictGet(new.st, word, new.ret)
    IN  ListAppend(new.st, occurrences, location)

\* Example 3-2: occurrences = index.get(word, [])
\*              occurrences.append(location)
\*              index[word] = occurrences
GetAppendStore(st, word, location) ==
    LET new == NewList(st)
        occurrences == DictGet(new.st, word, new.ret)
    IN  DictSetItem(ListAppend(new.st, occurrences, location), word, occurrences)

\* setdefault taken for an assignment: the word's list is replaced every time
SetItemAppend(st, word, location) ==
    LET new == NewList(st)
    IN  ListAppend(DictSetItem(new.st, word, new.ret), new.ret, location)

\* Example 3-4: index.setdefault(word, []).append(location)
SetDefaultAppend(st, word, location) ==
    LET new == NewList(st)
        got == DictSetDefault(new.st, word, new.ret)
    IN  ListAppend(got.st, got.ret, location)

\* if key not in my_dict: my_dict[key] = []
\* my_dict[key].append(new_value)
IfNotInAppend(st, key, new_value) ==
    LET new == NewList(st)
        st1 == IF ~Present(st, key) THEN DictSetItem(new.st, key, new.ret) ELSE st
    IN  ListAppend(st1, st1.ref[key], new_value)

\* Example 3-5: index[word].append(location)
DefaultDictAppend(st, word, location) ==
    LET got == DefaultDictGetItem(st, word)
    IN  ListAppend(got.st, got.ret, location)

\* what a mapping holds: its keys in order and the items of each key's list
Contents(st) ==
    [keys |-> st.keys, lists |-> [w \in DOMAIN st.ref |-> st.heap[st.ref[w]]]]

\* the pairs of keys that share one list object
Shared(st) ==
    {p \in (DOMAIN st.ref) \X (DOMAIN st.ref) : st.ref[p[1]] = st.ref[p[2]]}

EndState(st) == [contents |-> Contents(st), shared |-> Shared(st)]

----------------------------------------------------------------------------
(* index.py: printing *)

CodePoint(c) ==
    CASE c = "\n" -> 10 [] c = " " -> 32 [] c = "A" -> 65 [] c = "a" -> 97

\* str.upper
UpperChar(c) == IF c = "a" THEN "A" ELSE c
Upper(w) == [i \in 1..Len(w) |-> UpperChar(w[i])]

\* v < w for two strs
RECURSIVE StrLess(_, _)
StrLess(v, w) ==
    IF w = <<>> THEN FALSE
    ELSE IF v = <<>> THEN TRUE
    ELSE IF v[1] # w[1] THEN CodePoint(v[1]) < CodePoint(w[1])
    ELSE StrLess(Tail(v), Tail(w))

\* w put into a list sorted by str.upper, behind the words that do not
\* compare greater (the sort is stable)
RECURSIVE InsertByUpper(_, _)
InsertByUpper(w, s) ==
    IF s = <<>> THEN <<w>>
    ELSE IF StrLess(Upper(w), Upper(Head(s))) THEN <<w>> \o s
    ELSE <<Head(s)>> \o InsertByUpper(w, Tail(s))

\* sorted(index, key=str.upper)
RECURSIVE SortedByUpper(_)
SortedByUpper(ws) ==
    IF ws = <<>> THEN <<>>
    ELSE InsertByUpper(ws[Len(ws)], SortedByUpper(SubSeq(ws, 1, Len(ws) - 1)))

\* for word in sorted(index, key=str.upper): print(word, index[word])
PrintedLines(st) ==
    LET ws == SortedByUpper(st.keys)
    IN  [i \in 1..Len(ws) |-> <<ws[i], st.heap[st.ref[ws[i]]]>>]

----------------------------------------------------------------------------
(* index.py: the three scripts *)

Scripts == {"Example3_2", "Example3_4", "Example3_5"}

\* one pass of the inner loop of a script, for the next match of the file
ProcessMatch(script, st, m) ==
    CASE script = "Example3_2" -> GetAppendStore(st, m.word, m.location)
      [] script = "Example3_4" -> SetDefaultAppend(st, m.word, m.location)
      [] script = "Example3_5" -> DefaultDictAppend(st, m.word, m.location)

LoopStep(script) ==
    /\ ~printed[script]
    /\ done[script] < Len(Matches(text))
    /\ index' = [index EXCEPT ![script] =
                    ProcessMatch(script, @, Matches(text)[done[script] + 1])]
    /\ done' = [done EXCEPT ![script] = @ + 1]
    /\ UNCHANGED <<text, printed, out>>
    /\ UNCHANGED <<dictVars, deckVars, vectorVars>>

\* the printing loop, entered when the file is exhausted
PrintIndex(script) ==
    /\ ~printed[script]
    /\ done[script] = Len(Matches(text))
    /\ out' = [out EXCEPT ![script] = PrintedLines(index[script])]
    /\ printed' = [printed EXCEPT ![script] = TRUE]
    /\ UNCHANGED <<text, index, done>>
    /\ UNCHANGED <<dictVars, deckVars, vectorVars>>

IndexInit ==
    /\ text \in Texts
    /\ index = [s \in Scripts |-> EmptyIndex]
    /\ done = [s \in Scripts |-> 0]
    /\ printed = [s \in Scripts |-> FALSE]
    /\ out = [s \in Scripts |-> <<>>]

\* the scripts not run (an empty file, nothing processed)
IndexIdle ==
    /\ text = <<>>
    /\ index = [s \in Scripts |-> EmptyIndex]
    /\ done = [s \in Scripts |-> 0]
    /\ printed = [s \in Scripts |-> FALSE]
    /\ out = [s \in Scripts |-> <<>>]

IndexNext ==
    \/ LoopStep("Example3_2")
    \/ LoopStep("Example3_4")
    \/ LoopStep("Example3_5")
    \/ PrintIndex("Example3_2")
    \/ PrintIndex("Example3_4")
    \/ PrintIndex("Example3_5")

----------------------------------------------------------------------------
(* Claims about index.py *)

\* the words and locations the claims are tried on
Words == {<<"a">>, <<"A">>, <<"a", "a">>, <<"a", "A">>}
Locations == {Location(1, 1), Location(2, 3)}

Last(s) == s[Len(s)]

\* C5: on the defaultdict(list) index, index[word] for a word not yet a key
\* creates one new empty list, stores it under word and returns that very
\* list; for a word that is a key it creates nothing, changes nothing and
\* returns the stored list; either way index[word].append(location) leaves
\* word a key whose list ends with location.
C5_DefaultDictSuppliesList ==
    LET st == index["Example3_5"]
        n == done["Example3_5"]
    IN  /\ \A word \in Words, location \in Locations :
              LET got == DefaultDictGetItem(st, word)
                  after == DefaultDictAppend(st, word, location)
              IN  /\ IF Present(st, word)
                     THEN /\ got.st = st
                          /\ got.ret = st.ref[word]
                     ELSE /\ Len(got.st.heap) = Len(st.heap) + 1
                          /\ got.ret = Len(st.heap) + 1
                          /\ got.st.heap[got.ret] = <<>>
                          /\ got.st.ref = Store(st.ref, word, got.ret)
                          /\ got.st.keys = Append(st.keys, word)
                          /\ \A r \in 1..Len(st.heap) : got.st.heap[r] = st.heap[r]
                  /\ Present(after, word)
                  /\ after.ref[word] = got.ret
                  /\ Last(after.heap[got.ret]) = location
        /\ n > 0 =>
              /\ Present(st, Matches(text)[n].word)
              /\ Last(st.heap[st.ref[Matches(text)[n].word]]) = Matches(text)[n].location
              /\ Len(st.heap) = Len(st.keys)

\* Example 3-5 has indexed a new word and then a second occurrence of it,
\* with one list created
C5_Witness ==
    LET st == index["Example3_5"]
    IN  /\ done["Example3_5"] = 2
        /\ Len(st.keys) = 1
        /\ Len(st.heap) = 1
        /\ Len(st.heap[st.ref[st.keys[1]]]) = 2

\* C6: from every state of an index, for every key and value,
\* my_dict.setdefault(key, []).append(new_value), the if-not-in form and the
\* three lines of Example 3-2 end in the same mapping: the same keys in the
\* same order, the same items in each key's list, the same lists shared.
C6_SetDefaultEquivalence ==
    \A s \in Scripts, key \in Words, new_value \in Locations :
        /\ EndState(SetDefaultAppend(index[s], key, new_value))
              = EndState(IfNotInAppend(index[s], key, new_value))
        /\ EndState(SetDefaultAppend(index[s], key, new_value))
              = EndState(GetAppendStore(index[s], key, new_value))

\* an index built by the setdefault form that holds one of the words tried,
\* with two occurrences, and lacks the others
C6_Witness ==
    LET st == index["Example3_4"]
    IN  /\ done["Example3_4"] = 2
        /\ Present(st, <<"a">>)
        /\ \E w \in Words : ~Present(st, w)
        /\ Contents(SetDefaultAppend(st, <<"a">>, Location(2, 3))).lists[<<"a">>]
              = <<Location(1, 1), Location(1, 3), Location(2, 3)>>

\* C7: whenever two of the three scripts have processed the same number of
\* matches of the same file their indexes hold the same words, in the same
\* order, with the same list of locations each; and when both have printed,
\* they have printed the same lines in the same order.
C7_ScriptsAgree ==
    \A s \in Scripts, t \in Scripts :
        /\ done[s] = done[t] => Contents(index[s]) = Contents(index[t])
        /\ (printed[s] /\ printed[t]) => out[s] = out[t]

\* the three scripts have printed the two lines of the file 'A\na'
C7_Witness ==
    /\ text = <<"A", "\n", "a">>
    /\ \A s \in Scripts :
          /\ printed[s]
          /\ out[s] = << <<(<<"A">>), <<Location(1, 1)>> >>,
                         <<(<<"a">>), <<Location(2, 1)>> >> >>

----------------------------------------------------------------------------
(* FrenchDeck: the class attributes and the cards *)

\* range(a, b)
Range(a, b) == [i \in 1..(b - a) |-> a + i - 1]

\* list(s) for a str s: its characters, each a str of length one
ListOfStr(s) == [i \in 1..Len(s) |-> <<s[i]>>]

\* s.split(): the runs of s between blanks
RECURSIVE Split(_)
Split(s) ==
    IF s = <<>> THEN <<>>
    ELSE IF s[1] = " " THEN Split(Tail(s))
    ELSE LET blanks == {i \in 1..Len(s) : s[i] = " "}
             end == IF blanks = {} THEN Len(s) + 1
                    ELSE CHOOSE i \in blanks : \A j \in blanks : i <= j
         IN  <<SubSeq(s, 1, end - 1)>> \o Split(SubSeq(s, end, Len(s)))

\* ranks = [str(n) for n in range(2, 11)] + list('JQKA')
ranks ==
    [i \in 1..Len(Range(2, 11)) |-> IntToStr(Range(2, 11)[i])]
        \o ListOfStr(<<"J", "Q", "K", "A">>)

\* suits = 'spades diamonds clubs hearts'.split()
suits ==
    Split(<<"s", "p", "a", "d", "e", "s", " ",
            "d", "i", "a", "m", "o", "n", "d", "s", " ",
            "c", "l", "u", "b", "s", " ",
            "h", "e", "a", "r", "t", "s">>)

\* Card = collections.namedtuple('Card', ['rank', 'suit'])
Card(rank, suit) == [rank |-> rank, suit |-> suit]

\* [Card(rank, suit) for rank in rs for suit in ss]: the two loops exchanged
RECURSIVE CardsRankMajor(_, _)
CardsRankMajor(ss, rs) ==
    IF rs = <<>> THEN <<>>
    ELSE [i \in 1..Len(ss) |-> Card(Head(rs), ss[i])] \o CardsRankMajor(ss, Tail(rs))

\* [Card(rank, suit) for suit in ss for rank in rs]
RECURSIVE Cards(_, _)
Cards(ss, rs) ==
    IF ss = <<>> THEN <<>>
    ELSE [i \in 1..Len(rs) |-> Card(rs[i], Head(ss))] \o Cards(Tail(ss), rs)

\* FrenchDeck.__init__: self._cards
NewDeck == Cards(suits, ranks)

----------------------------------------------------------------------------
(* FrenchDeck: list operations *)

DeckResult(kind, n, items) == [kind |-> kind, n |-> n, items |-> items]
NoDeckResult == DeckResult("none", 0, <<>>)
NoCard == Card(<<>>, <<>>)
DeckOp(name, arg) == [name |-> name, arg |-> arg]

\* l[position] for an int position: list.__getitem__
ListGetItem(l, position) ==
    LET i == IF position < 0 THEN position + Len(l) ELSE position
    IN  IF 0 <= i /\ i < Len(l)
        THEN DeckResult("item", i, <<l[i + 1]>>)
        ELSE DeckResult("IndexError", position, <<>>)

\* a slice start:stop:step, each part an int or None
NoneValue == [none |-> TRUE, v |-> 0]
Num(v) == [none |-> FALSE, v |-> v]
Slice(start, stop, step) == [start |-> start, stop |-> stop, step |-> step]

\* an end of a slice brought into the list, as slice.indices(len) does
AdjustIndex(part, len, step, default) ==
    IF part.none THEN default
    ELSE LET i == IF part.v < 0 THEN part.v + len ELSE part.v
         IN  IF i < 0 THEN (IF step < 0 THEN -1 ELSE 0)
             ELSE IF i >= len THEN (IF step < 0 THEN len - 1 ELSE len)
             ELSE i

RECURSIVE SliceItems(_, _, _, _)
SliceItems(l, i, stop, step) ==
    IF (step > 0 /\ i < stop) \/ (step < 0 /\ i > stop)
    THEN <<l[i + 1]>> \o SliceItems(l, i + step, stop, step)
    ELSE <<>>

\* l[start:stop:step]: list.__getitem__ with a slice
ListGetSlice(l, sl) ==
    LET step == IF sl.step.none THEN 1 ELSE sl.step.v
        start == AdjustIndex(sl.start, Len(l), step, IF step < 0 THEN Len(l) - 1 ELSE 0)
        stop == AdjustIndex(sl.stop, Len(l), step, IF step < 0 THEN -1 ELSE Len(l))
    IN  SliceItems(l, start, stop, step)

\* the items an iteration over an object with __getitem__ alone yields:
\* obj[0], obj[1], ... until IndexError
RECURSIVE IterItems(_, _)
IterItems(l, i) ==
    LET got == ListGetItem(l, i)
    IN  IF got.kind = "IndexError" THEN <<>>
        ELSE got.items \o IterItems(l, i + 1)

\* the index of the first item of l equal to x: l.index(x), from 0
RECURSIVE IndexOf(_, _)
IndexOf(l, x) == IF Head(l) = x THEN 0 ELSE 1 + IndexOf(Tail(l), x)

\* suit_values = dict(spades=3, hearts=2, diamonds=1, clubs=0)
suit_values ==
    (<<"s", "p", "a", "d", "e", "s">> :> 3)
        @@ (<<"h", "e", "a", "r", "t", "s">> :> 2)
        @@ (<<"d", "i", "a", "m", "o", "n", "d", "s">> :> 1)
        @@ (<<"c", "l", "u", "b", "s">> :> 0)

\* a ranking by suit first and by rank second
spades_highSuitFirst(card) ==
    LET rank_value == IndexOf(ranks, card.rank)
    IN  suit_values[card.suit] * Len(ranks) + rank_value

\* spades_high(card)
spades_high(card) ==
    LET rank_value == IndexOf(ranks, card.rank)
    IN  rank_value * Cardinality(DOMAIN suit_values) + suit_values[card.suit]

\* the number of items of a list that go before item j when the list is put
\* in order of the keys key[1], key[2], ...: the items of a smaller key, and
\* the items of the same key that stand before j (the sort is stable)
Before(key) ==
    [j \in DOMAIN key |->
        Cardinality({k \in DOMAIN key :
                        key[k] < key[j] \/ (key[k] = key[j] /\ k < j)})]

\* l with its items placed as before says
Placed(l, before) ==
    [i \in 1..Len(l) |-> l[CHOOSE j \in 1..Len(l) : before[j] = i - 1]]

\* sorted(l, key=spades_high); <<>> \o f is the function f written out as a
\* list, so that the keys and the places are computed once
SortedByKey(l) ==
    Placed(l, <<>> \o Before(<<>> \o [k \in 1..Len(l) |-> spades_high(l[k])]))

----------------------------------------------------------------------------
(* FrenchDeck: the operations on a deck *)

MaxBeyond == 2

\* the positions the deck is indexed with: every valid one and some beyond
Positions == (-(Len(NewDeck) + MaxBeyond))..(Len(NewDeck) + MaxBeyond - 1)

\* the slices taken of the deck
Slices ==
    { Slice(NoneValue, Num(3), NoneValue),          \* deck[:3]
      Slice(Num(12), NoneValue, Num(13)),      \* deck[12::13]
      Slice(NoneValue, NoneValue, Num(-1)),
      Slice(Num(-3), NoneValue, NoneValue),
      Slice(Num(50), Num(60), Num(1)),
      Slice(Num(5), Num(2), NoneValue) }

\* the cards looked for in the deck: every card of it and some that are not
Targets ==
    {Card(r, s) : r \in {ranks[i] : i \in 1..Len(ranks)} \cup {<<"1">>, <<"1", "1">>},
                  s \in {suits[i] : i \in 1..Len(suits)}
                        \cup {<<"b", "e", "a", "s", "t", "s">>}}

Iteration(kind, pos, cmps, target, seen) ==
    [kind |-> kind, pos |-> pos, cmps |-> cmps, target |-> target, seen |-> seen]
NoIteration == Iteration("none", 0, 0, NoCard, <<>>)

DeckIdle == it.kind = "none"

\* FrenchDeck.__len__
DeckLenOf(cs) == Len(cs)

\* a __getitem__ that wraps around the end of the list and never raises
DeckGetItemOfWrapped(cs, position) == ListGetItem(cs, position % Len(cs))

\* FrenchDeck.__getitem__ with an int
DeckGetItemOf(cs, position) == ListGetItem(cs, position)

\* len(deck)
DeckLen ==
    /\ DeckIdle
    /\ dop' = DeckOp("len", 0)
    /\ dres' = DeckResult("int", DeckLenOf(cards), <<>>)
    /\ UNCHANGED <<cards, it>>
    /\ UNCHANGED <<dictVars, indexVars, vectorVars>>

\* deck[position]
DeckGetItem(position) ==
    /\ DeckIdle
    /\ dop' = DeckOp("getitem", position)
    /\ dres' = DeckGetItemOf(cards, position)
    /\ UNCHANGED <<cards, it>>
    /\ UNCHANGED <<dictVars, indexVars, vectorVars>>

\* deck[start:stop:step]
DeckGetSlice(sl) ==
    /\ DeckIdle
    /\ dop' = DeckOp("getslice", sl)
    /\ dres' = DeckResult("list", 0, ListGetSlice(cards, sl))
    /\ UNCHANGED <<cards, it>>
    /\ UNCHANGED <<dictVars, indexVars, vectorVars>>

\* choice(deck): deck[i] for an i below len(deck) drawn at random
DeckChoice ==
    /\ DeckIdle
    /\ \E i \in 0..(DeckLenOf(cards) - 1) :
          /\ dop' = DeckOp("choice", i)
          /\ dres' = DeckGetItemOf(cards, i)
    /\ UNCHANGED <<cards, it>>
    /\ UNCHANGED <<dictVars, indexVars, vectorVars>>

\* deck._cards.sort(key=spades_high): the deck itself put in order
DeckSortedInPlace ==
    /\ DeckIdle
    /\ dop' = DeckOp("sorted", 0)
    /\ cards' = SortedByKey(IterItems(cards, 0))
    /\ dres' = DeckResult("list", 0, cards')
    /\ UNCHANGED it
    /\ UNCHANGED <<dictVars, indexVars, vectorVars>>

\* sorted(deck, key=spades_high): a new list of the cards the iteration
\* over the deck yields, put in order
DeckSorted ==
    /\ DeckIdle
    /\ dop' = DeckOp("sorted", 0)
    /\ dres' = DeckResult("list", 0, SortedByKey(IterItems(cards, 0)))
    /\ UNCHANGED <<cards, it>>
    /\ UNCHANGED <<dictVars, indexVars, vectorVars>>

\* card in deck: FrenchDeck has no __contains__, so the cards are scanned
DeckContains(card) ==
    /\ DeckIdle
    /\ dop' = DeckOp("contains", card)
    /\ dres' = NoDeckResult
    /\ it' = Iteration("in", 0, 0, card, <<>>)
    /\ UNCHANGED cards
    /\ UNCHANGED <<dictVars, indexVars, vectorVars>>

\* a scan that compares the ranks alone
DeckContainsStepRankOnly ==
    /\ it.kind = "in"
    /\ LET got == DeckGetItemOf(cards, it.pos)
       IN  IF got.kind = "IndexError"
           THEN /\ dres' = DeckResult("False", it.cmps, <<>>)
                /\ it' = NoIteration
           ELSE IF got.items[1].rank = it.target.rank
                THEN /\ dres' = DeckResult("True", it.cmps + 1, <<>>)
                     /\ it' = NoIteration
                ELSE /\ dres' = dres
                     /\ it' = [it EXCEPT !.pos = @ + 1, !.cmps = @ + 1]
    /\ UNCHANGED <<cards, dop>>
    /\ UNCHANGED <<dictVars, indexVars, vectorVars>>

\* one step of the scan: deck[pos] is fetched; IndexError ends the scan with
\* False, a card equal to the one looked for ends it with True; the result
\* carries the number of comparisons made
DeckContainsStep ==
    /\ it.kind = "in"
    /\ LET got == DeckGetItemOf(cards, it.pos)
       IN  IF got.kind = "IndexError"
           THEN /\ dres' = DeckResult("False", it.cmps, <<>>)
                /\ it' = NoIteration
           ELSE IF got.items[1] = it.target
                THEN /\ dres' = DeckResult("True", it.cmps + 1, <<>>)
                     /\ it' = NoIteration
                ELSE /\ dres' = dres
                     /\ it' = [it EXCEPT !.pos = @ + 1, !.cmps = @ + 1]
    /\ UNCHANGED <<cards, dop>>
    /\ UNCHANGED <<dictVars, indexVars, vectorVars>>

\* for card in deck: print(card)
DeckFor ==
    /\ DeckIdle
    /\ dop' = DeckOp("for", 0)
    /\ dres' = NoDeckResult
    /\ it' = Iteration("for", 0, 0, NoCard, <<>>)
    /\ UNCHANGED cards
    /\ UNCHANGED <<dictVars, indexVars, vectorVars>>

\* one step of the loop: deck[pos] is fetched; IndexError ends the loop
DeckForStep ==
    /\ it.kind = "for"
    /\ LET got == DeckGetItemOf(cards, it.pos)
       IN  IF got.kind = "IndexError"
           THEN /\ dres' = DeckResult("list", 0, it.seen)
                /\ it' = NoIteration
           ELSE /\ dres' = dres
                /\ it' = [it EXCEPT !.pos = @ + 1, !.seen = @ \o got.items]
    /\ UNCHANGED <<cards, dop>>
    /\ UNCHANGED <<dictVars, indexVars, vectorVars>>

\* for card in reversed(deck): print(card); reversed starts at len(deck) - 1
DeckReversed ==
    /\ DeckIdle
    /\ dop' = DeckOp("reversed", 0)
    /\ dres' = NoDeckResult
    /\ it' = Iteration("reversed", DeckLenOf(cards) - 1, 0, NoCard, <<>>)
    /\ UNCHANGED cards
    /\ UNCHANGED <<dictVars, indexVars, vectorVars>>

\* one step of the reversed loop: it ends below position 0
DeckReversedStep ==
    /\ it.kind = "reversed"
    /\ IF it.pos < 0
       THEN /\ dres' = DeckResult("list", 0, it.seen)
            /\ it' = NoIteration
       ELSE /\ dres' = dres
            /\ it' = [it EXCEPT !.pos = @ - 1,
                                !.seen = @ \o DeckGetItemOf(cards, it.pos).items]
    /\ UNCHANGED <<cards, dop>>
    /\ UNCHANGED <<dictVars, indexVars, vectorVars>>

\* deck = FrenchDeck()
DeckInit ==
    /\ cards = NewDeck
    /\ dop = DeckOp("__init__", 0)
    /\ dres = NoDeckResult
    /\ it = NoIteration

DeckNext ==
    \/ DeckLen
    \/ \E position \in Positions : DeckGetItem(position)
    \/ \E sl \in Slices : DeckGetSlice(sl)
    \/ DeckChoice
    \/ DeckSorted
    \/ \E card \in Targets : DeckContains(card)
    \/ DeckContainsStep
    \/ DeckFor
    \/ DeckForStep
    \/ DeckReversed
    \/ DeckReversedStep

----------------------------------------------------------------------------
(* Claims about FrenchDeck *)

\* the ranks and suits as the claims spell them
TheRanks ==
    << <<"2">>, <<"3">>, <<"4">>, <<"5">>, <<"6">>, <<"7">>, <<"8">>, <<"9">>,
       <<"1", "0">>, <<"J">>, <<"Q">>, <<"K">>, <<"A">> >>
SpadesSuit == <<"s", "p", "a", "d", "e", "s">>
DiamondsSuit == <<"d", "i", "a", "m", "o", "n", "d", "s">>
ClubsSuit == <<"c", "l", "u", "b", "s">>
HeartsSuit == <<"h", "e", "a", "r", "t", "s">>
BeastsSuit == <<"b", "e", "a", "s", "t", "s">>
TheSuits == <<SpadesSuit, DiamondsSuit, ClubsSuit, HeartsSuit>>

\* the card the claims place at position i, from 0
CardAt(i) == Card(TheRanks[(i % 13) + 1], TheSuits[(i \div 13) + 1])

\* C8: the deck has |ranks| x |suits| = 13 x 4 = 52 cards, len(deck) is that
\* number, and the cards and their order are those of the new deck in every
\* state, whatever operations have been applied.
C8_DeckAlwaysHas52Cards ==
    /\ Len(ranks) = 13
    /\ Len(suits) = 4
    /\ DeckLenOf(cards) = Len(ranks) * Len(suits)
    /\ DeckLenOf(cards) = 52
    /\ Cardinality({cards[i] : i \in 1..Len(cards)}) = 52
    /\ cards = NewDeck
    /\ dop.name = "len" => dres = DeckResult("int", 52, <<>>)

\* sorted(deck, key=spades_high) has returned the 52 cards from the 2 of
\* clubs to the ace of spades, and the deck still begins with the 2 of spades
C8_Witness ==
    /\ DeckIdle
    /\ dop.name = "sorted"
    /\ Len(dres.items) = 52
    /\ dres.items[1] = Card(<<"2">>, ClubsSuit)
    /\ dres.items[52] = Card(<<"A">>, SpadesSuit)
    /\ cards[1] = Card(<<"2">>, SpadesSuit)

\* C9: deck[i] is Card(ranks[i mod 13], suits[i div 13]) for i in 0..51, with
\* the suits in the order spades, diamonds, clubs, hearts and the ranks in the
\* order 2..10, J, Q, K, A; deck[-j] is deck[52 - j] for j in 1..52; every
\* other index raises IndexError.
C9_IndexingOrder ==
    /\ \A i \in 0..51 : DeckGetItemOf(cards, i).items = <<CardAt(i)>>
    /\ DeckGetItemOf(cards, 0).items = <<Card(<<"2">>, SpadesSuit)>>
    /\ DeckGetItemOf(cards, -1) = DeckGetItemOf(cards, 51)
    /\ DeckGetItemOf(cards, -1).items = <<Card(<<"A">>, HeartsSuit)>>
    /\ dop.name = "getitem" =>
          IF dop.arg \in 0..51
          THEN dres.kind = "item" /\ dres.items = <<CardAt(dop.arg)>>
          ELSE IF dop.arg \in (-52)..(-1)
          THEN dres.kind = "item" /\ dres.items = <<CardAt(52 + dop.arg)>>
          ELSE dres.kind = "IndexError"

\* deck[-52] has returned the first card, the 2 of spades
C9_Witness ==
    /\ dop = DeckOp("getitem", -52)
    /\ dres.kind = "item"
    /\ dres.items = <<Card(<<"2">>, SpadesSuit)>>

\* C10: `c in deck` scans the cards from position 0 on, one comparison per
\* position and never more than 52; it ends with True exactly when the rank
\* of c is one of the 13 ranks and its suit one of the 4 suits, at the first
\* position that holds c, and with False otherwise.
C10_MembershipByScan ==
    /\ it.kind = "in" => (it.cmps = it.pos /\ it.cmps <= 52)
    /\ (DeckIdle /\ dop.name = "contains") =>
          /\ dres.kind =
                IF /\ dop.arg.rank \in {TheRanks[i] : i \in 1..13}
                   /\ dop.arg.suit \in {TheSuits[i] : i \in 1..4}
                THEN "True" ELSE "False"
          /\ dres.n <= 52
          /\ dres.kind = "True" => cards[dres.n] = dop.arg
          /\ dop.arg = Card(<<"Q">>, HeartsSuit) => dres.kind = "True"
          /\ dop.arg = Card(<<"7">>, BeastsSuit) => dres.kind = "False"

\* Card('7', 'beasts') in deck has ended with False after 52 comparisons
C10_Witness ==
    /\ DeckIdle
    /\ dop = DeckOp("contains", Card(<<"7">>, BeastsSuit))
    /\ dres = DeckResult("False", 52, <<>>)

\* the suits from the lowest to the highest, as the ranking rule words them
SuitsLowToHigh == <<ClubsSuit, DiamondsSuit, HeartsSuit, SpadesSuit>>

\* C11: spades_high(card) is rank_index * 4 + suit_value, with the ranks
\* counted from 0 for the 2 to 12 for the ace and the suits from 0 for clubs,
\* 1 diamonds, 2 hearts, to 3 for spades: a higher rank goes before any suit,
\* the 2 of clubs gets 0 and the ace of spades 51; and
\* sorted(deck, key=spades_high) returns all 52 cards of the deck with
\* strictly increasing spades_high values (so the values 0, 1, ..., 51).
C11_SpadesHighRanking ==
    /\ \A i \in 1..13 : \A j \in 1..4 :
          spades_high(Card(TheRanks[i], SuitsLowToHigh[j])) = (i - 1) * 4 + (j - 1)
    /\ spades_high(Card(<<"2">>, ClubsSuit)) = 0
    /\ spades_high(Card(<<"A">>, SpadesSuit)) = 51
    /\ spades_high(Card(<<"3">>, ClubsSuit)) > spades_high(Card(<<"2">>, SpadesSuit))
    /\ dop.name = "sorted" =>
          /\ dres.kind = "list"
          /\ Len(dres.items) = 52
          /\ {dres.items[k] : k \in 1..52} = {cards[k] : k \in 1..52}
          /\ \A k \in 1..51 :
                spades_high(dres.items[k]) < spades_high(dres.items[k + 1])
          /\ \A k \in 1..52 : spades_high(dres.items[k]) = k - 1

\* sorted(deck, key=spades_high) has returned a list in which the 2 of spades
\* (value 3) comes fourth and the 3 of clubs (value 4) fifth, the deck being
\* in its own order still
C11_Witness ==
    /\ DeckIdle
    /\ dop.name = "sorted"
    /\ dres.items[4] = Card(<<"2">>, SpadesSuit)
    /\ dres.items[5] = Card(<<"3">>, ClubsSuit)
    /\ spades_high(dres.items[52]) = 51
    /\ cards[52] = Card(<<"A">>, HeartsSuit)

\* the loops in progress and their outcomes: the cards visited so far are
\* deck[0], ..., deck[pos - 1] going forwards and deck[51], ..., deck[pos + 1]
\* going backwards, and a finished loop has visited all 52
C12_Visited ==
    /\ it.kind = "for" =>
          /\ it.pos \in 0..52
          /\ Len(it.seen) = it.pos
          /\ \A k \in 1..Len(it.seen) : it.seen[k] = CardAt(k - 1)
    /\ it.kind = "reversed" =>
          /\ it.pos \in (-1)..51
          /\ Len(it.seen) = 51 - it.pos
          /\ \A k \in 1..Len(it.seen) : it.seen[k] = CardAt(52 - k)
    /\ (DeckIdle /\ dop.name = "for") =>
          /\ Len(dres.items) = 52
          /\ \A k \in 1..52 : <<dres.items[k]>> = DeckGetItemOf(cards, k - 1).items
          /\ Cardinality({dres.items[k] : k \in 1..52}) = 52
    /\ (DeckIdle /\ dop.name = "reversed") =>
          /\ Len(dres.items) = 52
          /\ \A k \in 1..52 : <<dres.items[k]>> = DeckGetItemOf(cards, 52 - k).items
          /\ Cardinality({dres.items[k] : k \in 1..52}) = 52

\* C12: `for card in deck` visits deck[0], deck[1], ..., deck[51] in that
\* order, each once, and then stops: the loop ends when deck[52] raises
\* IndexError; `for card in reversed(deck)` visits deck[51] down to deck[0],
\* the reverse sequence, and stops too. Every loop that has been started
\* comes to its end, with all 52 cards visited.
C12_IterationVisitsAllAndStops ==
    /\ []C12_Visited
    /\ (it.kind = "for") ~> (DeckIdle /\ dop.name = "for" /\ Len(dres.items) = 52)
    /\ (it.kind = "reversed")
          ~> (DeckIdle /\ dop.name = "reversed" /\ Len(dres.items) = 52)

\* the loop over reversed(deck) has ended, having gone from the ace of
\* hearts (deck[51]) to the 2 of spades (deck[0])
C12_Witness ==
    /\ DeckIdle
    /\ dop.name = "reversed"
    /\ Len(dres.items) = 52
    /\ dres.items[1] = Card(<<"A">>, HeartsSuit)
    /\ dres.items[2] = Card(<<"K">>, HeartsSuit)
    /\ dres.items[52] = Card(<<"2">>, SpadesSuit)

----------------------------------------------------------------------------
(* Vector: two-dimensional vectors with + and *. Python's int has no
   width, so the components are plain integers. *)

MaxCoord == 4
MaxScalar == 3

\* the components the vectors v1 and v2 are constructed with
Coords == (-1)..MaxCoord

\* the scalars a vector is multiplied by
Scalars == (-1)..MaxScalar

\* the names v1 and v2, each bound to the object of that number
VectorNames == {1, 2}

\* Vector.__init__: self.x = x; self.y = y
VectorObject(x, y) == [x |-> x, y |-> y]

\* Vector(x, y): a new object, and the reference to it
VectorNew(heap, x, y) ==
    [heap |-> Append(heap, VectorObject(x, y)), ret |-> Len(heap) + 1]

\* an addition that adds to self and returns it
VectorAddInPlace(heap, self, other) ==
    LET x == heap[self].x + heap[other].x
        y == heap[self].y + heap[other].y
    IN  [heap |-> [heap EXCEPT ![self] = VectorObject(x, y)], ret |-> self]

\* Vector.__add__(self, other)
VectorAddOf(heap, self, other) ==
    LET x == heap[self].x + heap[other].x
        y == heap[self].y + heap[other].y
    IN  VectorNew(heap, x, y)

\* Vector.__mul__(self, scalar)
VectorMulOf(heap, self, scalar) ==
    VectorNew(heap, heap[self].x * scalar, heap[self].y * scalar)

VectorOp(name, self, arg, ret) ==
    [name |-> name, self |-> self, arg |-> arg, ret |-> ret]

\* the objects that v1 and v2 are bound to: the result of the expression
\* evaluated before is not referred to any more
Named(heap) == SubSeq(heap, 1, Cardinality(VectorNames))

\* a + b, for a and b among v1 and v2 (the same one twice too)
VectorAdd(a, b) ==
    /\ LET r == VectorAddOf(Named(vheap), a, b)
       IN  /\ vheap' = r.heap
           /\ vop' = VectorOp("__add__", a, b, r.ret)
    /\ vheap0' = Named(vheap)
    /\ UNCHANGED <<dictVars, indexVars, deckVars>>

\* a * scalar
VectorMul(a, scalar) ==
    /\ LET r == VectorMulOf(Named(vheap), a, scalar)
       IN  /\ vheap' = r.heap
           /\ vop' = VectorOp("__mul__", a, scalar, r.ret)
    /\ vheap0' = Named(vheap)
    /\ UNCHANGED <<dictVars, indexVars, deckVars>>

\* v1 = Vector(x1, y1); v2 = Vector(x2, y2)
VectorsOf(x1, y1, x2, y2) ==
    /\ vheap = VectorNew(VectorNew(<<>>, x1, y1).heap, x2, y2).heap
    /\ vop = VectorOp("__init__", 0, 0, 0)
    /\ vheap0 = <<>>

VectorInit ==
    \E x1 \in Coords : \E y1 \in Coords : \E x2 \in Coords : \E y2 \in Coords :
        VectorsOf(x1, y1, x2, y2)

\* v1 = Vector(2, 4); v2 = Vector(2, 1), nothing done with them
VectorIdle == VectorsOf(2, 4, 2, 1)

VectorNext ==
    \/ \E a \in VectorNames : \E b \in VectorNames : VectorAdd(a, b)
    \/ \E a \in VectorNames : \E scalar \in Scalars : VectorMul(a, scalar)

----------------------------------------------------------------------------
(* Claims about Vector *)

\* C13: a + b is a new Vector with x = a.x + b.x and y = a.y + b.y, and
\* a * s a new Vector with x = a.x * s and y = a.y * s, for all integer
\* vectors a, b and integer scalars s; Vector(2, 4) + Vector(2, 1) is
\* Vector(4, 5) and Vector(3, 4) * 3 is Vector(9, 12); the operands keep
\* their x and y; and b + a has the same x and y as a + b.
C13_VectorArithmetic ==
    /\ vop.name = "__add__" =>
          LET a == vheap0[vop.self]
              b == vheap0[vop.arg]
              sum == vheap[vop.ret]
              swapped == VectorAddOf(vheap0, vop.arg, vop.self)
          IN  /\ sum.x = a.x + b.x
              /\ sum.y = a.y + b.y
              /\ vop.ret \notin DOMAIN vheap0
              /\ \A r \in DOMAIN vheap0 : vheap[r] = vheap0[r]
              /\ swapped.heap[swapped.ret] = sum
              /\ (a = VectorObject(2, 4) /\ b = VectorObject(2, 1))
                    => sum = VectorObject(4, 5)
    /\ vop.name = "__mul__" =>
          LET a == vheap0[vop.self]
              product == vheap[vop.ret]
          IN  /\ product.x = a.x * vop.arg
              /\ product.y = a.y * vop.arg
              /\ vop.ret \notin DOMAIN vheap0
              /\ \A r \in DOMAIN vheap0 : vheap[r] = vheap0[r]
              /\ (a = VectorObject(3, 4) /\ vop.arg = 3)
                    => product = VectorObject(9, 12)

\* v1 = Vector(2, 4); v2 = Vector(2, 1); v1 + v2 has returned a third
\* object, Vector(4, 5), and v1 and v2 are what they were
C13_Witness ==
    /\ vop = VectorOp("__add__", 1, 2, 3)
    /\ vheap0 = <<VectorObject(2, 4), VectorObject(2, 1)>>
    /\ vheap = <<VectorObject(2, 4), VectorObject(2, 1), VectorObject(4, 5)>>

----------------------------------------------------------------------------
(* Specifications: each part of the notebooks is run on its own, the others
   staying as they are when nothing has been done with them *)

\* the StrKeyDict not used (constructed empty)
DictIdle ==
    /\ data = <<>>
    /\ stack = <<>>
    /\ calls = <<>>
    /\ op = Operation("__init__", NoKey, 0)
    /\ res = NoResult
    /\ data0 = <<>>

InitDict == IndexIdle /\ DeckInit /\ VectorIdle /\ DictInit
SpecDict == InitDict /\ [][DictNext]_vars

InitIndex == DictIdle /\ DeckInit /\ VectorIdle /\ IndexInit
SpecIndex == InitIndex /\ [][IndexNext]_vars

InitDeck == DictIdle /\ IndexIdle /\ VectorIdle /\ DeckInit
SpecDeck == InitDeck /\ [][DeckNext]_vars

\* the interpreter runs a loop it has started to completion: a step of a
\* loop that can be taken is taken
SpecDeckFair ==
    /\ InitDeck
    /\ [][DeckNext]_vars
    /\ WF_vars(DeckForStep)
    /\ WF_vars(DeckReversedStep)

InitVector == DictIdle /\ IndexIdle /\ DeckInit /\ VectorInit
SpecVector == InitVector /\ [][VectorNext]_vars

====
